---- MODULE Spec2Model ----
(***************************************************************************)
(* Model of the chat bot of chatgpt-tool-hub: the output parser            *)
(* ChatBot._extract_tool_and_input, the construction of a bot by           *)
(* ChatBot.from_llm_and_tools, the bot loop around them and the tool       *)
(* adapters BrowserTool, GoogleSearch and GoogleSearchResults.             *)
(*                                                                         *)
(* A Python str is a sequence of one-character strings, so that searching, *)
(* splitting, stripping and the regular expression work on characters.     *)
(***************************************************************************)
EXTENDS Integers, Sequences, FiniteSets, TLC

VARIABLES
  mode,            \* which of the three specifications the behaviour belongs to
  pc,              \* position of the parser / the bot loop / the tool caller
  ai_prefix,       \* ChatBot.ai_prefix
  tools,           \* the tools the bot was constructed from
  allowed_tools,   \* Bot.allowed_tools, as set by from_llm_and_tools
  prompt,          \* what create_prompt put into the prompt template
  llm_output,      \* the text the parser is applied to
  gen,             \* how llm_output was composed (the X and Y of an action block)
  outcome,         \* result of _extract_tool_and_input
  scratchpad,      \* the transcript of the bot loop
  llmCalls,        \* number of model queries of the run
  toolCalls,       \* number of tool dispatches of the run
  iterations,      \* completed turns of the run
  lastCall,        \* the last invocation of a tool adapter and its result
  externalCalls    \* number of calls of the wrapped external services

vars == <<mode, pc, ai_prefix, tools, allowed_tools, prompt, llm_output, gen, outcome,
          scratchpad, llmCalls, toolCalls, iterations, lastCall, externalCalls>>

-----------------------------------------------------------------------------
(* Bounds of the model *)

\* longest text composed freely from the segments below
MaxSegs == 4
\* longest action name X of a composed action block
MaxNameLen == 2
\* longest action input Y of a composed action block
MaxInputLen == 3
\* most tools handed to from_llm_and_tools
MaxTools == 2
\* turn limit of the bot loop
MaxIterations == 2
\* most adapter invocations in the tool specification
MaxCalls == 3

-----------------------------------------------------------------------------
(* Characters and texts *)

NL == "\n"
TAB == "\t"
SP == " "
QUOTE == "\""

\* what str.strip() without an argument removes (the members the texts use)
Whitespace == {SP, NL, TAB}

ActionTag == <<"A", "c", "t", "i", "o", "n", ":", " ">>
ActionInputTag == <<"A", "c", "t", "i", "o", "n", " ", "I", "n", "p", "u", "t", ":", " ">>

AI == <<"A", "I">>
COLON == <<":">>

\* the configurations of ai_prefix: the default and one containing a colon
AiPrefixes == {AI, COLON}

None == <<"None">>

-----------------------------------------------------------------------------
(* Python str operations *)

\* sub occurs in text at position i (1-based)
OccursAt(text, sub, i) ==
  /\ i >= 1
  /\ i + Len(sub) - 1 <= Len(text)
  /\ \A k \in 1..Len(sub) : text[i + k - 1] = sub[k]

Occurrences(text, sub) == {i \in 1..Len(text) : OccursAt(text, sub, i)}

\* `sub in text`
Contains(text, sub) == Occurrences(text, sub) # {}

From(text, i) == SubSeq(text, i, Len(text))

Min(S) == CHOOSE x \in S : \A y \in S : x <= y
Max(S) == CHOOSE x \in S : \A y \in S : x >= y

\* text.strip(chars): drop the leading and the trailing characters in chars
strip(text, chars) ==
  LET keep == {i \in 1..Len(text) : text[i] \notin chars}
  IN  IF keep = {} THEN <<>> ELSE SubSeq(text, Min(keep), Max(keep))

\* text.split(sep)[-1]: str.split scans from the left and continues after each
\* occurrence it found; the last piece is what follows the last one found
RECURSIVE split_last_from(_, _, _)
split_last_from(text, sep, from) ==
  LET hits == {i \in Occurrences(text, sep) : i >= from}
  IN  IF hits = {} THEN From(text, from)
      ELSE split_last_from(text, sep, Min(hits) + Len(sep))

\* a plausible slip: [1] instead of [-1] would take what follows the FIRST
\* marker, up to the next one
split_first(text, sep) ==
  LET hits == Occurrences(text, sep)
      rest == From(text, Min(hits) + Len(sep))
      more == Occurrences(rest, sep)
  IN  IF hits = {} THEN text
      ELSE IF more = {} THEN rest ELSE SubSeq(rest, 1, Min(more) - 1)

split_last(text, sep) == split_last_from(text, sep, 1)

-----------------------------------------------------------------------------
(* re.search of the action pattern: the literal ActionTag, a lazy group 1 *)
(* of characters other than newline, any number of newlines, the literal   *)
(* ActionInputTag, and a greedy group 2 of characters other than newline   *)

\* number of characters from position i on that satisfy "is a newline" = nl
RECURSIVE Run(_, _, _)
Run(text, i, nl) ==
  IF i > Len(text) \/ ((text[i] = NL) # nl) THEN 0 ELSE 1 + Run(text, i + 1, nl)

\* a plausible slip: with re.DOTALL group 1 runs over newlines
Group1LengthsDotAll(text, s) ==
  LET p == s + Len(ActionTag)
  IN  IF ~OccursAt(text, ActionTag, s) THEN {}
      ELSE {k \in 0..(Len(text) - p + 1) :
              OccursAt(text, ActionInputTag, p + k + Run(text, p + k, TRUE))}

\* the lengths k of group 1 with which the pattern matches at start s: k
\* characters other than newline, then the whole run of newlines (the newline
\* repetition gives none back, because the literal after it starts with A), then the literal
Group1Lengths(text, s) ==
  LET p == s + Len(ActionTag)
  IN  IF ~OccursAt(text, ActionTag, s) THEN {}
      ELSE {k \in 0..Run(text, p, FALSE) :
              OccursAt(text, ActionInputTag, p + k + Run(text, p + k, TRUE))}

\* leftmost start, group 1 as short as possible, group 2 to the end of the line
re_search(text) ==
  LET starts == {s \in 1..Len(text) : Group1Lengths(text, s) # {}}
  IN  IF starts = {} THEN [found |-> FALSE, group1 |-> <<>>, group2 |-> <<>>]
      ELSE LET s == Min(starts)
               p == s + Len(ActionTag)
               k == Min(Group1Lengths(text, s))
               q == p + k + Run(text, p + k, TRUE) + Len(ActionInputTag)
           IN  [found |-> TRUE,
                group1 |-> SubSeq(text, p, p + k - 1),
                group2 |-> SubSeq(text, q, q + Run(text, q, FALSE) - 1)]

-----------------------------------------------------------------------------
(* ChatBot *)

\* f"{self.ai_prefix}:"
Marker(prefix) == prefix \o COLON

\* a plausible slip: the fixed name other bots of the family finish with
finish_tool_name_fixed(prefix) == <<"F", "i", "n", "a", "l">>

finish_tool_name(prefix) == prefix

\* a plausible slip: the action pattern tried before the final-answer marker
extract_tool_and_input_regex_first(prefix, text) ==
  LET match == re_search(text)
  IN  IF match.found
      THEN [branch |-> "action",
            tool |-> strip(match.group1, Whitespace),
            input |-> strip(strip(match.group2, {SP}), {QUOTE})]
      ELSE IF Contains(text, Marker(prefix))
      THEN [branch |-> "finish", tool |-> prefix,
            input |-> strip(split_last(text, Marker(prefix)), Whitespace)]
      ELSE [branch |-> "ValueError", tool |-> None, input |-> None]

\* a plausible slip: a failed match falls through to the return statement
\* with nothing matched instead of raising
extract_tool_and_input_no_raise(prefix, text) ==
  IF Contains(text, Marker(prefix))
  THEN [branch |-> "finish", tool |-> prefix,
        input |-> strip(split_last(text, Marker(prefix)), Whitespace)]
  ELSE LET match == re_search(text)
       IN  [branch |-> "action",
            tool |-> strip(match.group1, Whitespace),
            input |-> strip(strip(match.group2, {SP}), {QUOTE})]

\* the outcome of _extract_tool_and_input: the returned pair (tool, input), or
\* the ValueError; branch records which return statement produced the pair
extract_tool_and_input(prefix, text) ==
  IF Contains(text, Marker(prefix))
  THEN [branch |-> "finish", tool |-> prefix,
        input |-> strip(split_last(text, Marker(prefix)), Whitespace)]
  ELSE LET match == re_search(text)
       IN  IF ~match.found
           THEN [branch |-> "ValueError", tool |-> None, input |-> None]
           ELSE [branch |-> "action",
                 tool |-> strip(match.group1, Whitespace),
                 input |-> strip(strip(match.group2, {SP}), {QUOTE})]

-----------------------------------------------------------------------------
(* The texts the parser is applied to *)

RECURSIVE Flatten(_)
Flatten(ss) == IF ss = <<>> THEN <<>> ELSE Head(ss) \o Flatten(Tail(ss))

SeqsUpTo(S, n) == UNION {[1..k -> S] : k \in 0..n}

\* pieces a model output is freely composed of
Segments == {ActionTag, ActionInputTag, Marker(AI), COLON, <<NL>>, <<SP>>, <<"x">>}

FreeTexts == {Flatten(ss) : ss \in SeqsUpTo(Segments, MaxSegs)}

NameChars == {"x", SP}
InputChars == {"x", SP, QUOTE, TAB}

\* what may stand before and after a well-formed action block
Before == {<<>>, <<"x", NL>>}
After == {<<>>, <<NL, "x">>, <<NL>> \o Marker(AI) \o <<"x">>}

\* "Action: X" and "Action Input: Y" on lines of their own
ActionText(pre, X, Y, post) ==
  pre \o ActionTag \o X \o <<NL>> \o ActionInputTag \o Y \o post

NoGen == [shape |-> "free", X |-> None, Y |-> None]

ActionNames == SeqsUpTo(NameChars, MaxNameLen)
ActionInputs == SeqsUpTo(InputChars, MaxInputLen)

-----------------------------------------------------------------------------
(* State shared by the specifications *)

NoOutcome == [branch |-> "none", tool |-> None, input |-> None]
NoPrompt == [tool_names |-> <<>>, ai_prefix |-> None]
NoCall == [tool |-> "none", method |-> "none", input |-> <<>>, failed |-> FALSE,
           exc |-> [type |-> "", msg |-> ""], kind |-> "none", value |-> <<>>,
           error |-> [type |-> "", msg |-> ""], calls |-> 0]

Idle ==
  /\ tools = <<>>
  /\ allowed_tools = <<>>
  /\ prompt = NoPrompt
  /\ outcome = NoOutcome
  /\ scratchpad = <<>>
  /\ llmCalls = 0
  /\ toolCalls = 0
  /\ iterations = 0
  /\ lastCall = NoCall
  /\ externalCalls = 0

-----------------------------------------------------------------------------
(* Specification of the parser: _extract_tool_and_input on bounded inputs *)

InitParse ==
  /\ mode = "parse"
  /\ pc = "start"
  /\ ai_prefix \in AiPrefixes
  /\ \/ /\ llm_output \in FreeTexts
        /\ gen = NoGen
     \/ \E pre \in Before, X \in ActionNames, Y \in ActionInputs, post \in After :
          /\ llm_output = ActionText(pre, X, Y, post)
          /\ gen = [shape |-> "action", X |-> X, Y |-> Y]
  /\ Idle

Parse ==
  /\ mode = "parse"
  /\ pc = "start"
  /\ outcome' = extract_tool_and_input(ai_prefix, llm_output)
  /\ pc' = "done"
  /\ UNCHANGED <<mode, ai_prefix, tools, allowed_tools, prompt, llm_output, gen,
                 scratchpad, llmCalls, toolCalls, iterations, lastCall,
                 externalCalls>>

NextParse == Parse

SpecParse == InitParse /\ [][NextParse]_vars

-----------------------------------------------------------------------------
(* The tool adapters *)

ToolClasses == {"BrowserTool", "GoogleSearch", "GoogleSearchResults"}

\* the name attribute of each adapter class
tool_name(cls) ==
  CASE cls = "BrowserTool" -> <<"b", "r", "o", "w", "s", "e", "r">>
    [] cls = "GoogleSearch" ->
         <<"G", "o", "o", "g", "l", "e", " ", "S", "e", "a", "r", "c", "h">>
    [] cls = "GoogleSearchResults" ->
         <<"G", "o", "o", "g", "l", "e", " ", "S", "e", "a", "r", "c", "h", " ",
           "R", "e", "s", "u", "l", "t", "s", " ", "J", "S", "O", "N">>

\* what the wrapped service does when it is called: the call itself returns
\* value or raises exc, and the post-processing of the text (filter_text)
\* succeeds or raises exc
Responses == {<<"page">>, <<"results">>}
Exceptions == {[type |-> "ConnectionError", msg |-> "timeout"],
               [type |-> "HttpError", msg |-> "quota"]}
NoException == [type |-> "", msg |-> ""]

ExternalOutcomes ==
  [call : {"ok", "raise"}, post : {"ok", "raise"}, value : Responses,
   exc : Exceptions]

\* repr(e) and str(e) of an exception
repr(e) == <<e.type, "(", e.msg, ")">>
str(e) == <<e.msg>>

Returned(v) == [kind |-> "returned", value |-> v, error |-> NoException, calls |-> 1]
Raised(e, n) == [kind |-> "raised", value |-> <<>>, error |-> e, calls |-> n]

NotImplementedError(msg) == [type |-> "NotImplementedError", msg |-> msg]

\* BrowserTool._run: everything raised inside the try block becomes repr(e)
BrowserTool_run(url, ext) ==
  IF ext.call = "raise" \/ ext.post = "raise"
  THEN Returned(repr(ext.exc))
  ELSE Returned(ext.value)

BrowserTool_arun(url, ext) ==
  Raised(NotImplementedError("not support run this tool in async"), 0)

\* GoogleSearch._run: the value of api_wrapper.run(query), no handler
GoogleSearch_run(query, ext) ==
  IF ext.call = "raise" THEN Raised(ext.exc, 1) ELSE Returned(ext.value)

\* a plausible slip: the asynchronous method delegating to the synchronous one
GoogleSearch_arun_delegating(query, ext) == GoogleSearch_run(query, ext)

GoogleSearch_arun(query, ext) ==
  Raised(NotImplementedError("GoogleSearchRun does not support async"), 0)

\* GoogleSearchResults._run: str() of api_wrapper.results(query, num_results)
GoogleSearchResults_run(query, ext) ==
  IF ext.call = "raise" THEN Raised(ext.exc, 1)
  ELSE Returned(<<"[">> \o ext.value \o <<"]">>)

GoogleSearchResults_arun(query, ext) ==
  Raised(NotImplementedError("GoogleSearchRun does not support async"), 0)

tool_run(cls, input, ext) ==
  CASE cls = "BrowserTool" -> BrowserTool_run(input, ext)
    [] cls = "GoogleSearch" -> GoogleSearch_run(input, ext)
    [] cls = "GoogleSearchResults" -> GoogleSearchResults_run(input, ext)

tool_arun(cls, input, ext) ==
  CASE cls = "BrowserTool" -> BrowserTool_arun(input, ext)
    [] cls = "GoogleSearch" -> GoogleSearch_arun(input, ext)
    [] cls = "GoogleSearchResults" -> GoogleSearchResults_arun(input, ext)

\* the wrapped call of the adapter, or its post-processing, fails under ext
Fails(cls, ext) ==
  IF cls = "BrowserTool" THEN ext.call = "raise" \/ ext.post = "raise"
  ELSE ext.call = "raise"

-----------------------------------------------------------------------------
(* Specification of the tool adapters: a caller invoking _run and _arun *)

ToolInputs == {<<>>, <<"x">>}

InitTools ==
  /\ mode = "tools"
  /\ pc = "idle"
  /\ ai_prefix = None
  /\ llm_output = None
  /\ gen = NoGen
  /\ Idle

Invoke(cls, method, input, ext, r) ==
  /\ mode = "tools"
  /\ toolCalls < MaxCalls
  /\ toolCalls' = toolCalls + 1
  /\ externalCalls' = externalCalls + r.calls
  /\ lastCall' = [tool |-> cls, method |-> method, input |-> input,
                  failed |-> Fails(cls, ext),
                  exc |-> ext.exc, kind |-> r.kind, value |-> r.value,
                  error |-> r.error, calls |-> r.calls]
  /\ UNCHANGED <<mode, pc, ai_prefix, tools, allowed_tools, prompt, llm_output,
                 gen, outcome, scratchpad, llmCalls, iterations>>

InvokeRun ==
  \E cls \in ToolClasses, input \in ToolInputs, ext \in ExternalOutcomes :
    Invoke(cls, "_run", input, ext, tool_run(cls, input, ext))

InvokeArun ==
  \E cls \in ToolClasses, input \in ToolInputs, ext \in ExternalOutcomes :
    Invoke(cls, "_arun", input, ext, tool_arun(cls, input, ext))

NextTools == InvokeRun \/ InvokeArun

SpecTools == InitTools /\ [][NextTools]_vars

-----------------------------------------------------------------------------
(* Construction of a bot: ChatBot.create_prompt and from_llm_and_tools *)

\* the tool sequences a caller may hand over, repeated classes included
ToolSequences == SeqsUpTo(ToolClasses, MaxTools)

\* Bot._validate_tools: the tool names of a session are pairwise distinct
validate_tools(ts) ==
  \A i, j \in 1..Len(ts) : tool_name(ts[i]) = tool_name(ts[j]) => i = j

\* create_prompt: the tool names and the ai_prefix formatted into the template
create_prompt(ts, prefix) ==
  [tool_names |-> [i \in 1..Len(ts) |-> tool_name(ts[i])], ai_prefix |-> prefix]

\* a plausible slip: the comprehension naming the first tool for every tool
tool_names_of_first(ts) == [i \in 1..Len(ts) |-> tool_name(ts[1])]

\* tool_names of from_llm_and_tools, which become allowed_tools
tool_names(ts) == [i \in 1..Len(ts) |-> tool_name(ts[i])]

observation_prefix == "Observation: "
llm_prefix == "Thought:"

-----------------------------------------------------------------------------
(* Specification of the bot loop: construct, then plan, act and append until *)
(* the final answer, an error or the turn limit                              *)

\* what the model may answer in a turn
LoopOutputs(prefix) ==
  {Marker(prefix) \o <<SP, "x">>,
   <<"x">>,
   ActionText(<<>>, <<"x">>, <<"x">>, <<>>),
   ActionText(<<>>, prefix, <<"x">>, <<>>)}
  \cup {ActionText(<<>>, tool_name(cls), <<"x">>, <<>>) : cls \in ToolClasses}

Init ==
  /\ mode = "loop"
  /\ pc = "new"
  /\ ai_prefix = None
  /\ llm_output = None
  /\ gen = NoGen
  /\ Idle

\* from_llm_and_tools(llm, tools, ai_prefix = prefix)
Construct ==
  /\ mode = "loop"
  /\ pc = "new"
  /\ \E ts \in ToolSequences, prefix \in AiPrefixes :
       IF validate_tools(ts)
       THEN /\ tools' = ts
            /\ prompt' = create_prompt(ts, prefix)
            /\ allowed_tools' = tool_names(ts)
            /\ ai_prefix' = prefix
            /\ pc' = "plan"
       ELSE /\ pc' = "rejected"
            /\ UNCHANGED <<tools, prompt, allowed_tools, ai_prefix>>
  /\ UNCHANGED <<mode, llm_output, gen, outcome, scratchpad, llmCalls,
                 toolCalls, iterations, lastCall, externalCalls>>

\* one query of the model and the parse of its output; the loop takes the
\* pair for the final answer when its tool is finish_tool_name
Plan ==
  /\ mode = "loop"
  /\ pc = "plan"
  /\ iterations < MaxIterations
  /\ \E text \in LoopOutputs(ai_prefix) :
       LET parsed == extract_tool_and_input(ai_prefix, text)
       IN  /\ llm_output' = text
           /\ outcome' = parsed
           /\ pc' = IF parsed.branch = "ValueError" THEN "error"
                    ELSE IF parsed.tool = finish_tool_name(ai_prefix) THEN "finished"
                    ELSE "act"
  /\ llmCalls' = llmCalls + 1
  /\ UNCHANGED <<mode, ai_prefix, tools, allowed_tools, prompt, gen, scratchpad,
                 toolCalls, iterations, lastCall, externalCalls>>

\* the turn limit is reached
Stop ==
  /\ mode = "loop"
  /\ pc = "plan"
  /\ iterations >= MaxIterations
  /\ pc' = "stopped"
  /\ UNCHANGED <<mode, ai_prefix, tools, allowed_tools, prompt, llm_output, gen,
                 outcome, scratchpad, llmCalls, toolCalls, iterations, lastCall,
                 externalCalls>>

\* a plausible slip: the new step replacing the transcript instead of
\* extending it
Record_replacing(pad, log, observation) ==
  <<[log |-> log, observation_prefix |-> observation_prefix,
     observation |-> observation, llm_prefix |-> llm_prefix]>>

\* the step appended to the transcript: the model's text, then the
\* observation behind observation_prefix, then llm_prefix
Record(pad, log, observation) ==
  Append(pad, [log |-> log, observation_prefix |-> observation_prefix,
               observation |-> observation, llm_prefix |-> llm_prefix])

\* dispatch to the tool the action names; its output is appended
ActTool ==
  /\ mode = "loop"
  /\ pc = "act"
  /\ \E i \in 1..Len(tools), ext \in ExternalOutcomes :
       LET r == tool_run(tools[i], outcome.input, ext)
       IN  /\ allowed_tools[i] = outcome.tool
           /\ toolCalls' = toolCalls + 1
           /\ externalCalls' = externalCalls + r.calls
           /\ IF r.kind = "returned"
              THEN /\ scratchpad' = Record(scratchpad, llm_output, r.value)
                   /\ iterations' = iterations + 1
                   /\ pc' = "plan"
              ELSE /\ pc' = "error"
                   /\ UNCHANGED <<scratchpad, iterations>>
  /\ UNCHANGED <<mode, ai_prefix, tools, allowed_tools, prompt, llm_output, gen,
                 outcome, llmCalls, lastCall>>

\* the action names no tool of the bot: the observation says so
ActInvalidTool ==
  /\ mode = "loop"
  /\ pc = "act"
  /\ \A i \in 1..Len(allowed_tools) : allowed_tools[i] # outcome.tool
  /\ scratchpad' = Record(scratchpad, llm_output, <<"invalid tool">>)
  /\ iterations' = iterations + 1
  /\ pc' = "plan"
  /\ UNCHANGED <<mode, ai_prefix, tools, allowed_tools, prompt, llm_output, gen,
                 outcome, llmCalls, toolCalls, lastCall, externalCalls>>

Next == Construct \/ Plan \/ Stop \/ ActTool \/ ActInvalidTool

Spec == Init /\ [][Next]_vars

-----------------------------------------------------------------------------
(* Properties of the parser, checked under SpecParse *)

Parsed == mode = "parse" /\ pc = "done"

HasMarker == Contains(llm_output, Marker(ai_prefix))

\* the text that follows the occurrence of the marker at position i, trimmed
TrimmedAfter(i) ==
  strip(From(llm_output, i + Len(Marker(ai_prefix))), Whitespace)

Trimmed(s) == s = <<>> \/ (s[1] \notin Whitespace /\ s[Len(s)] \notin Whitespace)

\* the text contains the two-line action pattern: ActionTag, then characters
\* other than newline, then newlines only, then ActionInputTag
ContainsActionPattern(text) ==
  \E s \in Occurrences(text, ActionTag), j \in Occurrences(text, ActionInputTag) :
    /\ j >= s + Len(ActionTag)
    /\ \E k \in 0..(j - s - Len(ActionTag)) :
         /\ \A i \in (s + Len(ActionTag))..(s + Len(ActionTag) + k - 1) : text[i] # NL
         /\ \A i \in (s + Len(ActionTag) + k)..(j - 1) : text[i] = NL

\* C1: a text that contains the final-answer marker yields the finish outcome,
\* with the (trimmed) text after an occurrence of the marker as the answer,
\* whatever else the text contains, an action block included.
C1_MarkerYieldsFinish ==
  (Parsed /\ HasMarker) =>
    /\ outcome.branch = "finish"
    /\ outcome.tool = ai_prefix
    /\ \E i \in Occurrences(llm_output, Marker(ai_prefix)) :
         outcome.input = TrimmedAfter(i)

\* a text with a well-formed action block and the marker was parsed as finish
C1_Witness ==
  /\ Parsed /\ HasMarker
  /\ gen.shape = "action" /\ gen.X # <<>> /\ gen.Y # <<>>
  /\ ContainsActionPattern(llm_output)
  /\ outcome.branch = "finish"

\* C2: a text without the marker that has a well-formed action block yields
\* the tool name X and the input Y, and the returned input neither begins nor
\* ends with a whitespace character or a quote character.
C2_InputStrippedOfQuotesAndWhitespace ==
  (Parsed /\ gen.shape = "action" /\ ~HasMarker) =>
    /\ outcome.branch = "action"
    /\ outcome.tool = strip(gen.X, Whitespace)
    /\ Trimmed(outcome.input)
    /\ outcome.input # <<>> =>
         (outcome.input[1] # QUOTE /\ outcome.input[Len(outcome.input)] # QUOTE)

\* C3: a text with neither the marker nor the action pattern raises the
\* ValueError, and no tool name or input is returned.
C3_NeitherPatternRaises ==
  (Parsed /\ ~HasMarker /\ ~ContainsActionPattern(llm_output)) =>
    /\ outcome.branch = "ValueError"
    /\ outcome.tool = None
    /\ outcome.input = None

\* a text that has both tags, but not in the shape of the pattern, was rejected
C3_Witness ==
  /\ Parsed /\ ~HasMarker /\ ~ContainsActionPattern(llm_output)
  /\ Contains(llm_output, ActionTag) /\ Contains(llm_output, ActionInputTag)
  /\ outcome.branch = "ValueError"

\* a marker that can overlap itself: a proper prefix of it is a suffix of it
SelfOverlapping(m) ==
  \E k \in 1..(Len(m) - 1) : SubSeq(m, 1, k) = SubSeq(m, Len(m) - k + 1, Len(m))

\* C9 as stated: the final answer is the trimmed text after the LAST
\* occurrence of the marker, never contains the marker and is trimmed.
C9_AnswerFollowsLastOccurrence ==
  (Parsed /\ outcome.branch = "finish") =>
    /\ outcome.input = TrimmedAfter(Max(Occurrences(llm_output, Marker(ai_prefix))))
    /\ ~Contains(outcome.input, Marker(ai_prefix))
    /\ Trimmed(outcome.input)

\* C9 as amended: the final answer is the trimmed text after an occurrence of
\* the marker that no complete marker follows; that is the last occurrence
\* whenever the marker cannot overlap itself; the answer never contains the
\* marker and is trimmed.
C9_AnswerFollowsFinalMarker ==
  (Parsed /\ outcome.branch = "finish") =>
    /\ \E i \in Occurrences(llm_output, Marker(ai_prefix)) :
         /\ ~Contains(From(llm_output, i + Len(Marker(ai_prefix))), Marker(ai_prefix))
         /\ outcome.input = TrimmedAfter(i)
    /\ ~SelfOverlapping(Marker(ai_prefix)) =>
         outcome.input = TrimmedAfter(Max(Occurrences(llm_output, Marker(ai_prefix))))
    /\ ~Contains(outcome.input, Marker(ai_prefix))
    /\ Trimmed(outcome.input)

\* a text with several markers and padded text after the last was parsed
C9_Witness ==
  /\ Parsed /\ outcome.branch = "finish"
  /\ Cardinality(Occurrences(llm_output, Marker(ai_prefix))) >= 2
  /\ outcome.input # <<>>
  /\ outcome.input # From(llm_output, Max(Occurrences(llm_output, Marker(ai_prefix)))
                                        + Len(Marker(ai_prefix)))

-----------------------------------------------------------------------------
(* Properties of the tool adapters, checked under SpecTools *)

\* C4: when the wrapped call or its post-processing fails, _run of every
\* adapter returns the text of the error and raises nothing.
C4_FailureReturnedAsText ==
  (lastCall.method = "_run" /\ lastCall.failed) =>
    /\ lastCall.kind = "returned"
    /\ lastCall.value \in {repr(lastCall.exc), str(lastCall.exc)}

\* C5: _arun of every adapter raises NotImplementedError, returns nothing and
\* does not call the wrapped service.
C5_AsyncNotImplemented ==
  lastCall.method = "_arun" =>
    /\ lastCall.kind = "raised"
    /\ lastCall.error.type = "NotImplementedError"
    /\ lastCall.value = <<>>
    /\ lastCall.calls = 0

\* _arun of a search adapter was invoked after synchronous calls went through
C5_Witness ==
  /\ lastCall.method = "_arun"
  /\ lastCall.tool = "GoogleSearch"
  /\ lastCall.kind = "raised"
  /\ externalCalls >= 1

-----------------------------------------------------------------------------
(* Properties of the bot loop, checked under Spec *)

Unparseable(prefix, text) ==
  ~Contains(text, Marker(prefix)) /\ ~ContainsActionPattern(text)

\* C6: a model output that cannot be parsed ends the run in the error at once:
\* in that step no tool is dispatched and nothing is appended, and afterwards
\* the model is not queried again and nothing else happens.
C6_ParseFailureIsFatal ==
  [][/\ (llmCalls' = llmCalls + 1 /\ Unparseable(ai_prefix, llm_output')) =>
          /\ pc' = "error"
          /\ scratchpad' = scratchpad
          /\ toolCalls' = toolCalls
          /\ externalCalls' = externalCalls
     /\ (llmCalls >= 1 /\ Unparseable(ai_prefix, llm_output)) =>
          UNCHANGED <<pc, scratchpad, llmCalls, toolCalls, externalCalls,
                      iterations>>]_vars

\* the parse failed in a later turn, after a tool had been dispatched
C6_Witness ==
  /\ pc = "error"
  /\ outcome.branch = "ValueError"
  /\ toolCalls >= 1
  /\ scratchpad # <<>>

IsPrefix(a, b) == Len(a) <= Len(b) /\ SubSeq(b, 1, Len(a)) = a

\* C7: the transcript only grows at its end: what an earlier turn recorded is
\* never removed, changed or reordered.
C7_TranscriptAppendOnly == [][IsPrefix(scratchpad, scratchpad')]_vars

\* two turns with different observations were recorded
C7_Witness ==
  /\ Len(scratchpad) >= 2
  /\ scratchpad[1].observation # scratchpad[2].observation

Distinct(names) == \A i, j \in 1..Len(names) : names[i] = names[j] => i = j

C10_FinishRecognised ==
  (mode = "loop" /\ outcome.branch = "finish") =>
    /\ outcome.tool = finish_tool_name(ai_prefix)
    /\ prompt.ai_prefix = ai_prefix
    /\ Contains(llm_output, prompt.ai_prefix \o COLON)
    /\ pc = "finished"

\* a bot configured with another ai_prefix finished after a tool turn
C10_Witness ==
  /\ outcome.branch = "finish"
  /\ ai_prefix # AI
  /\ pc = "finished"
  /\ scratchpad # <<>>

====
